---- MODULE Spec2Model ----
(***************************************************************************)
(* Expense tracker: the categorisation engine with persistent merchant     *)
(* overrides (app/categoriser.py) and the statement parsers                *)
(* (app/parsers.py).                                                       *)
(*                                                                         *)
(* Text is modelled as sequences of one-character strings, so that         *)
(* str.lower(), str.strip(), str.replace() and the substring test are      *)
(* computed character by character.  The overrides file is assumed to be   *)
(* readable and writable whenever it exists.                               *)
(***************************************************************************)
EXTENDS Integers, Sequences, FiniteSets, TLC

VARIABLES
    storage,    \* content of config/overrides.json
    config,     \* the CategoryConfig loaded from config/categories.json
    data,       \* per session: OverrideStore._data of the session's store
    call,       \* the last call made on the categoriser API and its outcome
    files,      \* the (file, filename) list handed to parse_multiple
    idx,        \* number of files parse_multiple has consumed
    frames,     \* parse_multiple's list of per-file frames
    outcome     \* what parse_statement / parse_multiple gave back

vars == <<storage, config, data, call, files, idx, frames, outcome>>

storeVars == <<storage, config, data, call>>
parseVars == <<files, idx, frames, outcome>>

-----------------------------------------------------------------------------
(* Text helpers: Python str methods over character sequences.              *)

\* str.lower() on one character
LowerChar(c) ==
    IF c = "A" THEN "a" ELSE IF c = "B" THEN "b" ELSE c

\* str.lower()
Lower(s) == [i \in 1..Len(s) |-> LowerChar(s[i])]

IsSpace(c) == c = " "

RECURSIVE LStrip(_)
LStrip(s) == IF s # <<>> /\ IsSpace(Head(s)) THEN LStrip(Tail(s)) ELSE s

RECURSIVE RStrip(_)
RStrip(s) ==
    IF s # <<>> /\ IsSpace(s[Len(s)]) THEN RStrip(SubSeq(s, 1, Len(s) - 1)) ELSE s

\* str.strip()
Strip(s) == RStrip(LStrip(s))

\* the Python test `kw in s` on strings
Contains(kw, s) ==
    \E i \in 0..(Len(s) - Len(kw)) : SubSeq(s, i + 1, i + Len(kw)) = kw

-----------------------------------------------------------------------------
(* Inputs of the categoriser.                                              *)

Descriptions ==
    { <<"a", "b">>, <<"A", "B">>, <<" ", "a", "b", " ">>, <<"a", "B", " ">>,
      <<"b">>, <<"B", " ">>, <<" ">> }

UncategorisedDefault == "Other / Uncategorised"

UncategorisedIconDefault == "question mark"

\* documents config/categories.json may hold: categories in file order, each
\* with its keywords as written (any case) and, possibly, its icon
ConfigDocs ==
    { [categories |-> << [name |-> "Transport", keywords |-> << <<"A", "b">> >>,
                          icon |-> "car"],
                         [name |-> "Food", keywords |-> << <<"b", "b">>, <<"B">> >>,
                          icon |-> "fork"] >>,
       label |-> "Other", icon |-> "dots"],
      [categories |-> << [name |-> "Food", keywords |-> << <<"b">> >>],
                         [name |-> "Transport", keywords |-> << <<"a", "B">>, <<"a">> >>,
                          icon |-> "car"] >>,
       label |-> UncategorisedDefault, icon |-> UncategorisedIconDefault],
      [categories |-> << [name |-> "Bills", keywords |-> << >>, icon |-> "bulb"],
                         [name |-> "Food", keywords |-> << <<"b", " ">> >>,
                          icon |-> "fork"] >>,
       label |-> "Other", icon |-> UncategorisedIconDefault] }

Categories == {"Transport", "Food", "Business"}

Sessions == {"s1", "s2"}

-----------------------------------------------------------------------------
(* CategoryConfig                                                          *)

\* info.get("icon", "") for each category of the document
Icons(doc) ==
    [name \in {doc.categories[i].name : i \in 1..Len(doc.categories)} |->
        LET info == doc.categories[CHOOSE i \in 1..Len(doc.categories) :
                                      doc.categories[i].name = name]
        IN IF "icon" \in DOMAIN info THEN info.icon ELSE ""]

\* CategoryConfig.load without the lowercasing of keywords
CategoryConfigLoadAsWritten(doc) ==
    [rules |-> [i \in 1..Len(doc.categories) |->
                   [name |-> doc.categories[i].name,
                    keywords |-> doc.categories[i].keywords]],
     icons |-> Icons(doc),
     uncategorised_label |-> doc.label,
     uncategorised_icon |-> doc.icon]

\* CategoryConfig.load: rules keep the file's category order, keywords are
\* lowercased
CategoryConfigLoad(doc) ==
    [rules |-> [i \in 1..Len(doc.categories) |->
                   [name |-> doc.categories[i].name,
                    keywords |-> [j \in 1..Len(doc.categories[i].keywords) |->
                                     Lower(doc.categories[i].keywords[j])]]],
     icons |-> Icons(doc),
     uncategorised_label |-> doc.label,
     uncategorised_icon |-> doc.icon]

-----------------------------------------------------------------------------
(* OverrideStore                                                           *)

NoStore == [kind |-> "none"]
Dict(m) == [kind |-> "dict", map |-> m]
EmptyMap == [k \in {} |-> "x"]

\* json.dumps of a str -> str dict: the members of a JSON object
Dumps(m) == {<<k, m[k]>> : k \in DOMAIN m}

\* json.loads of a JSON object
Loads(members) ==
    [k \in {p[1] : p \in members} |-> (CHOOSE p \in members : p[1] = k)[2]]

ObjectDoc(members) == [kind |-> "object", members |-> members]

\* contents config/overrides.json may have before the first store is built
InitialStorages ==
    { [kind |-> "missing"],
      [kind |-> "nontext"],      \* bytes that do not decode as text
      [kind |-> "badjson"],      \* text that is not JSON
      [kind |-> "array"],        \* the JSON document []
      [kind |-> "number"],       \* the JSON document 5
      ObjectDoc({}),
      ObjectDoc({<< <<"a", "b">>, "Food" >>}),
      ObjectDoc({<< <<"b">>, "Business" >>, << <<"A", "B">>, "Food" >>}) }

\* OverrideStore._load: the value _data gets, or the exception that escapes
Load(st) ==
    CASE st.kind = "missing" -> [exc |-> "none", data |-> Dict(EmptyMap)]
      [] st.kind = "badjson" -> [exc |-> "none", data |-> Dict(EmptyMap)]
      [] st.kind = "nontext" -> [exc |-> "UnicodeDecodeError", data |-> NoStore]
      [] st.kind = "array" -> [exc |-> "none", data |-> [kind |-> "array"]]
      [] st.kind = "number" -> [exc |-> "none", data |-> [kind |-> "number"]]
      [] st.kind = "object" -> [exc |-> "none", data |-> Dict(Loads(st.members))]

\* OverrideStore._save
Save(d) == ObjectDoc(Dumps(d.map))

None == "None"

\* OverrideStore.get that also answers with the override of a key occurring
\* inside the description
GetBySubstring(d, description) ==
    LET key == Strip(Lower(description)) IN
    IF d.kind # "dict" THEN [exc |-> "AttributeError", value |-> None]
    ELSE IF key \in DOMAIN d.map THEN [exc |-> "none", value |-> d.map[key]]
    ELSE IF \E k \in DOMAIN d.map : Contains(k, key)
    THEN [exc |-> "none", value |-> d.map[CHOOSE k \in DOMAIN d.map : Contains(k, key)]]
    ELSE [exc |-> "none", value |-> None]

\* OverrideStore.get
Get(d, description) ==
    LET key == Strip(Lower(description)) IN
    IF d.kind # "dict" THEN [exc |-> "AttributeError", value |-> None]
    ELSE IF key \in DOMAIN d.map THEN [exc |-> "none", value |-> d.map[key]]
    ELSE [exc |-> "none", value |-> None]

\* OverrideStore.set that reads the file again and merges what it holds
\* into _data before writing
SetMerging(d, st, description, category) ==
    LET key == Strip(Lower(description))
        onFile == IF st.kind = "object" THEN Loads(st.members) ELSE EmptyMap
    IN
    IF d.kind # "dict" THEN [exc |-> "TypeError", data |-> d, storage |-> st]
    ELSE LET m == [k \in DOMAIN onFile \cup DOMAIN d.map \cup {key} |->
                       IF k = key THEN category
                       ELSE IF k \in DOMAIN d.map THEN d.map[k]
                       ELSE onFile[k]]
         IN [exc |-> "none", data |-> Dict(m), storage |-> Save(Dict(m))]

\* OverrideStore.set: the store's _data and the file afterwards
Set(d, st, description, category) ==
    LET key == Strip(Lower(description)) IN
    IF d.kind # "dict" THEN [exc |-> "TypeError", data |-> d, storage |-> st]
    ELSE LET m == [k \in DOMAIN d.map \cup {key} |->
                       IF k = key THEN category ELSE d.map[k]]
         IN [exc |-> "none", data |-> Dict(m), storage |-> Save(Dict(m))]

\* OverrideStore.remove that deletes the key without looking whether it is
\* there
RemoveUnchecked(d, st, description) ==
    LET key == Strip(Lower(description)) IN
    IF d.kind # "dict" THEN [exc |-> "TypeError", data |-> d, storage |-> st]
    ELSE IF key \notin DOMAIN d.map THEN [exc |-> "KeyError", data |-> d, storage |-> st]
    ELSE LET m == [k \in DOMAIN d.map \ {key} |-> d.map[k]]
         IN [exc |-> "none", data |-> Dict(m), storage |-> Save(Dict(m))]

\* OverrideStore.remove that deletes the key without calling _save
RemoveWithoutSave(d, st, description) ==
    LET key == Strip(Lower(description)) IN
    CASE d.kind = "number" -> [exc |-> "TypeError", data |-> d, storage |-> st]
      [] d.kind = "array" -> [exc |-> "none", data |-> d, storage |-> st]
      [] d.kind = "dict" ->
            [exc |-> "none",
             data |-> Dict([k \in DOMAIN d.map \ {key} |-> d.map[k]]),
             storage |-> st]

\* OverrideStore.remove
Remove(d, st, description) ==
    LET key == Strip(Lower(description)) IN
    CASE d.kind = "number" -> [exc |-> "TypeError", data |-> d, storage |-> st]
      [] d.kind = "array" -> [exc |-> "none", data |-> d, storage |-> st]
      [] d.kind = "dict" ->
            IF key \in DOMAIN d.map
            THEN LET m == [k \in DOMAIN d.map \ {key} |-> d.map[k]]
                 IN [exc |-> "none", data |-> Dict(m), storage |-> Save(Dict(m))]
            ELSE [exc |-> "none", data |-> d, storage |-> st]

-----------------------------------------------------------------------------
(* Categoriser                                                             *)

\* the inner loop of categorise: does some keyword of the list occur in
\* desc_lower
RECURSIVE AnyKeyword(_, _)
AnyKeyword(keywords, desc_lower) ==
    IF keywords = <<>> THEN FALSE
    ELSE IF Contains(Head(keywords), desc_lower) THEN TRUE
    ELSE AnyKeyword(Tail(keywords), desc_lower)

\* the outer loop of categorise over config.rules.items()
RECURSIVE ScanRules(_, _, _)
ScanRules(rules, desc_lower, label) ==
    IF rules = <<>> THEN label
    ELSE IF AnyKeyword(Head(rules).keywords, desc_lower) THEN Head(rules).name
    ELSE ScanRules(Tail(rules), desc_lower, label)

\* Categoriser.categorise that consults the keyword rules before the overrides
CategoriseRulesFirst(cfg, d, description) ==
    LET override == Get(d, description)
        byRule == ScanRules(cfg.rules, Lower(description), cfg.uncategorised_label)
    IN
    IF override.exc # "none" THEN override
    ELSE IF byRule # cfg.uncategorised_label THEN [exc |-> "none", value |-> byRule]
    ELSE IF override.value # None THEN override
    ELSE [exc |-> "none", value |-> byRule]

\* Categoriser.categorise
Categorise(cfg, d, description) ==
    LET override == Get(d, description) IN
    IF override.exc # "none" THEN override
    ELSE IF override.value # None THEN override
    ELSE [exc |-> "none",
          value |-> ScanRules(cfg.rules, Lower(description), cfg.uncategorised_label)]

\* Categoriser.get_icon
GetIcon(cfg, category) ==
    IF category = cfg.uncategorised_label THEN cfg.uncategorised_icon
    ELSE IF category \in DOMAIN cfg.icons THEN cfg.icons[category]
    ELSE ""

\* Categoriser.all_categories
AllCategories(cfg) ==
    [i \in 1..Len(cfg.rules) |-> cfg.rules[i].name] \o <<cfg.uncategorised_label>>

\* A mapping handed to a caller is an object: `alias` tells whether it is
\* the store's own _data or an object of its own.

\* OverrideStore.all_overrides that returns self._data itself
AllOverridesAliased(d) ==
    CASE d.kind = "number" -> [exc |-> "TypeError", value |-> None]
      [] d.kind = "array" -> [exc |-> "none", value |-> [alias |-> FALSE, map |-> EmptyMap]]
      [] d.kind = "dict" -> [exc |-> "none", value |-> [alias |-> TRUE, map |-> d.map]]

\* OverrideStore.all_overrides: dict(self._data)
AllOverrides(d) ==
    CASE d.kind = "number" -> [exc |-> "TypeError", value |-> None]
      [] d.kind = "array" -> [exc |-> "none", value |-> [alias |-> FALSE, map |-> EmptyMap]]
      [] d.kind = "dict" -> [exc |-> "none", value |-> [alias |-> FALSE, map |-> d.map]]

-----------------------------------------------------------------------------
(* The categoriser API as a state machine.                                 *)

NoCall == [op |-> "none", session |-> "s1", desc |-> <<>>, cat |-> None,
           exc |-> "none", value |-> None]

InitStore ==
    /\ storage \in InitialStorages
    /\ \E doc \in ConfigDocs : config = CategoryConfigLoad(doc)
    /\ data = [s \in Sessions |-> NoStore]
    /\ call = NoCall

\* get_categoriser(): a session builds its Categoriser, whose OverrideStore
\* loads the file; an exception leaves the session without a categoriser
Construct(s) ==
    LET r == Load(storage) IN
    /\ data' = [data EXCEPT ![s] = r.data]
    /\ call' = [op |-> "construct", session |-> s, desc |-> <<>>, cat |-> None,
                exc |-> r.exc, value |-> None]
    /\ UNCHANGED <<storage, config>>

DoCategorise(s, description) ==
    /\ data[s] # NoStore
    /\ LET r == Categorise(config, data[s], description) IN
       call' = [op |-> "categorise", session |-> s, desc |-> description,
                cat |-> None, exc |-> r.exc, value |-> r.value]
    /\ UNCHANGED <<storage, config, data>>

\* Categoriser.recategorise
Recategorise(s, description, category) ==
    /\ data[s] # NoStore
    /\ LET r == Set(data[s], storage, description, category) IN
       /\ data' = [data EXCEPT ![s] = r.data]
       /\ storage' = r.storage
       /\ call' = [op |-> "recategorise", session |-> s, desc |-> description,
                   cat |-> category, exc |-> r.exc, value |-> None]
    /\ UNCHANGED config

DoRemove(s, description) ==
    /\ data[s] # NoStore
    /\ LET r == Remove(data[s], storage, description) IN
       /\ data' = [data EXCEPT ![s] = r.data]
       /\ storage' = r.storage
       /\ call' = [op |-> "remove", session |-> s, desc |-> description,
                   cat |-> None, exc |-> r.exc, value |-> None]
    /\ UNCHANGED config

\* OverrideStore.get
DoGet(s, description) ==
    /\ data[s] # NoStore
    /\ LET r == Get(data[s], description) IN
       call' = [op |-> "get", session |-> s, desc |-> description,
                cat |-> None, exc |-> r.exc, value |-> r.value]
    /\ UNCHANGED <<storage, config, data>>

\* Categoriser.get_icon
DoGetIcon(s, category) ==
    /\ data[s] # NoStore
    /\ call' = [op |-> "get_icon", session |-> s, desc |-> <<>>, cat |-> category,
                exc |-> "none", value |-> GetIcon(config, category)]
    /\ UNCHANGED <<storage, config, data>>

\* Categoriser.all_categories
DoAllCategories(s) ==
    /\ data[s] # NoStore
    /\ call' = [op |-> "all_categories", session |-> s, desc |-> <<>>, cat |-> None,
                exc |-> "none", value |-> AllCategories(config)]
    /\ UNCHANGED <<storage, config, data>>

\* OverrideStore.all_overrides
DoAllOverrides(s) ==
    /\ data[s] # NoStore
    /\ LET r == AllOverrides(data[s]) IN
       call' = [op |-> "all_overrides", session |-> s, desc |-> <<>>,
                cat |-> None, exc |-> r.exc, value |-> r.value]
    /\ UNCHANGED <<storage, config, data>>

\* the caller assigns returned[key] = category in the mapping all_overrides
\* has just returned to it; the store changes with it when the mapping is
\* the store's own
MutateReturned(s, key, category) ==
    /\ call.op = "all_overrides"
    /\ call.session = s
    /\ call.exc = "none"
    /\ LET m == [k \in DOMAIN call.value.map \cup {key} |->
                     IF k = key THEN category ELSE call.value.map[k]]
       IN /\ call' = [op |-> "mutate_returned", session |-> s, desc |-> key,
                      cat |-> category, exc |-> "none",
                      value |-> [alias |-> call.value.alias, map |-> m]]
          /\ data' = IF call.value.alias THEN [data EXCEPT ![s] = Dict(m)] ELSE data
    /\ UNCHANGED <<storage, config>>

IdleParse ==
    /\ files = <<>>
    /\ idx = 0
    /\ frames = <<>>
    /\ outcome = [status |-> "idle", exc |-> "none", rows |-> <<>>]

\* One session at a time: building a categoriser again is a restart that
\* reloads the store from the file.
Init ==
    /\ InitStore
    /\ IdleParse

ConstructStep == Construct("s1") /\ UNCHANGED parseVars
CategoriseStep == (\E d \in Descriptions : DoCategorise("s1", d)) /\ UNCHANGED parseVars
RecategoriseStep ==
    (\E d \in Descriptions, c \in Categories : Recategorise("s1", d, c))
        /\ UNCHANGED parseVars
RemoveStep == (\E d \in Descriptions : DoRemove("s1", d)) /\ UNCHANGED parseVars
GetStep == (\E d \in Descriptions : DoGet("s1", d)) /\ UNCHANGED parseVars
GetIconStep ==
    (\E c \in Categories \cup {config.uncategorised_label} : DoGetIcon("s1", c))
        /\ UNCHANGED parseVars
AllCategoriesStep == DoAllCategories("s1") /\ UNCHANGED parseVars
AllOverridesStep == DoAllOverrides("s1") /\ UNCHANGED parseVars
MutateReturnedStep ==
    (\E d \in Descriptions, c \in Categories :
        MutateReturned("s1", Strip(Lower(d)), c)) /\ UNCHANGED parseVars

Next ==
    \/ ConstructStep
    \/ CategoriseStep
    \/ RecategoriseStep
    \/ RemoveStep

Spec == Init /\ [][Next]_vars

\* The same session with the operations that only read, and a caller that
\* writes into the mapping all_overrides returned.
NextReads ==
    \/ ConstructStep
    \/ CategoriseStep
    \/ RecategoriseStep
    \/ RemoveStep
    \/ GetStep
    \/ GetIconStep
    \/ AllCategoriesStep
    \/ AllOverridesStep
    \/ MutateReturnedStep

SpecReads == Init /\ [][NextReads]_vars

\* Two sessions, each with its own Categoriser on the same file.  A call
\* runs to its end before the next one starts (the script of a session is
\* synchronous), so the calls of the two sessions interleave as wholes.
SharedDescriptions == {<<"a", "b">>, <<"A", "B">>, <<"B", " ">>}
SharedCategories == {"Food", "Business"}

InitShared ==
    /\ storage \in InitialStorages
    /\ config = CategoryConfigLoad(CHOOSE doc \in ConfigDocs :
                                       doc.label = UncategorisedDefault)
    /\ data = [s \in Sessions |-> NoStore]
    /\ call = NoCall
    /\ IdleParse

ConstructShared == (\E s \in Sessions : Construct(s)) /\ UNCHANGED parseVars
CategoriseShared ==
    (\E s \in Sessions, d \in SharedDescriptions : DoCategorise(s, d))
        /\ UNCHANGED parseVars
RecategoriseShared ==
    (\E s \in Sessions, d \in SharedDescriptions, c \in SharedCategories :
        Recategorise(s, d, c)) /\ UNCHANGED parseVars
RemoveShared ==
    (\E s \in Sessions, d \in SharedDescriptions : DoRemove(s, d))
        /\ UNCHANGED parseVars

NextShared ==
    \/ ConstructShared
    \/ CategoriseShared
    \/ RecategoriseShared
    \/ RemoveShared

SpecShared == InitShared /\ [][NextShared]_vars

-----------------------------------------------------------------------------
(* Statement parsers: cells of the raw table.                              *)
(*                                                                         *)
(* A date cell is either missing (NaN), free text, or three numbers with   *)
(* a separator ("01/02/2026" is 1 / 2 / 2026).  An amount cell is a        *)
(* character sequence; amounts are whole numbers.  A description is a      *)
(* sequence of words, the empty sequence being a missing description.      *)

DateCell(a, sep, b, c) == [kind |-> "num3", a |-> a, sep |-> sep, b |-> b, c |-> c]
NaNDate == [kind |-> "nan", a |-> 0, sep |-> "", b |-> 0, c |-> 0]
TextDate == [kind |-> "text", a |-> 0, sep |-> "", b |-> 0, c |-> 0]

Date(y, m, d) == [y |-> y, m |-> m, d |-> d]
NaT == Date(0, 0, 0)

\* days of a month (of a year that is not a leap year)
DaysIn(m) == IF m = 2 THEN 28 ELSE IF m \in {4, 6, 9, 11} THEN 30 ELSE 31

ValidDate(y, m, d) == m \in 1..12 /\ d >= 1 /\ d <= DaysIn(m) /\ y >= 1

\* the formats _to_date tries, in order: %d/%m/%Y, %d-%m-%Y, %Y-%m-%d,
\* %d %b %Y, %d/%m/%y, %m/%d/%Y
FORMATS ==
    << [sep |-> "/", order |-> "dmy", digits |-> 4],
       [sep |-> "-", order |-> "dmy", digits |-> 4],
       [sep |-> "-", order |-> "ymd", digits |-> 4],
       [sep |-> " ", order |-> "dmy", digits |-> 4],
       [sep |-> "/", order |-> "dmy", digits |-> 2],
       [sep |-> "/", order |-> "mdy", digits |-> 4] >>

\* the year a year field stands for under %Y (four digits) or %y (two)
YearOf(n, digits) ==
    IF digits = 4 THEN (IF n >= 1000 /\ n <= 9999 THEN n ELSE 0)
    ELSE IF n < 0 \/ n > 99 THEN 0
    ELSE IF n < 69 THEN 2000 + n ELSE 1900 + n

\* strptime of one cell with one format: the date, or NaT for a cell the
\* format does not match
Strptime(fmt, cell) ==
    IF cell.kind # "num3" \/ cell.sep # fmt.sep THEN NaT
    ELSE LET y == YearOf(IF fmt.order = "ymd" THEN cell.a ELSE cell.c, fmt.digits)
             m == IF fmt.order = "mdy" THEN cell.a ELSE cell.b
             d == CASE fmt.order = "dmy" -> cell.a
                    [] fmt.order = "mdy" -> cell.b
                    [] fmt.order = "ymd" -> cell.c
         IN IF ValidDate(y, m, d) THEN Date(y, m, d) ELSE NaT

\* pd.to_datetime(series, format=fmt): every cell must match, missing cells
\* become NaT
FormatParsesAll(fmt, series) ==
    \A i \in 1..Len(series) :
        series[i].kind = "nan" \/ Strptime(fmt, series[i]) # NaT

WithFormat(fmt, series) ==
    [i \in 1..Len(series) |->
        IF series[i].kind = "nan" THEN NaT ELSE Strptime(fmt, series[i])]

\* one cell under format="mixed", dayfirst=True: year-first strings are
\* read as such, otherwise the day is taken first when that gives a date
\* and the month first when only that does
MixedCell(cell) ==
    IF cell.kind # "num3" THEN NaT
    ELSE IF cell.a >= 1000
    THEN (IF ValidDate(cell.a, cell.b, cell.c) THEN Date(cell.a, cell.b, cell.c) ELSE NaT)
    ELSE LET y == YearOf(cell.c, IF cell.c >= 100 THEN 4 ELSE 2) IN
         IF ValidDate(y, cell.b, cell.a) THEN Date(y, cell.b, cell.a)
         ELSE IF ValidDate(y, cell.a, cell.b) THEN Date(y, cell.a, cell.b)
         ELSE NaT

\* the fallback of _to_date: errors="raise" is the default, so a cell that
\* is not a date raises
Mixed(series) ==
    IF \E i \in 1..Len(series) : series[i].kind # "nan" /\ MixedCell(series[i]) = NaT
    THEN [exc |-> "DateParseError", dates |-> <<>>]
    ELSE [exc |-> "none",
          dates |-> [i \in 1..Len(series) |->
                        IF series[i].kind = "nan" THEN NaT ELSE MixedCell(series[i])]]

RECURSIVE TryFormats(_, _)
TryFormats(i, series) ==
    IF i > Len(FORMATS) THEN Mixed(series)
    ELSE IF FormatParsesAll(FORMATS[i], series)
    THEN [exc |-> "none", dates |-> WithFormat(FORMATS[i], series)]
    ELSE TryFormats(i + 1, series)

\* _to_date
ToDate(series) == TryFormats(1, series)

\* numbers: pd.to_numeric(..., errors="coerce") gives a number or NaN
NaN == [nan |-> TRUE, v |-> 0]
Num(v) == [nan |-> FALSE, v |-> v]

Digits == {"0", "1", "2", "3", "4", "5", "6", "7", "8", "9"}

DigitVal(c) ==
    CASE c = "0" -> 0 [] c = "1" -> 1 [] c = "2" -> 2 [] c = "3" -> 3 [] c = "4" -> 4
      [] c = "5" -> 5 [] c = "6" -> 6 [] c = "7" -> 7 [] c = "8" -> 8 [] c = "9" -> 9

RECURSIVE DigitsValue(_)
DigitsValue(s) ==
    IF s = <<>> THEN 0 ELSE 10 * DigitsValue(SubSeq(s, 1, Len(s) - 1)) + DigitVal(s[Len(s)])

\* pd.to_numeric of one string, errors="coerce"
ToNumeric(s) ==
    LET body == IF s # <<>> /\ Head(s) = "-" THEN Tail(s) ELSE s IN
    IF body = <<>> \/ \E i \in 1..Len(body) : body[i] \notin Digits THEN NaN
    ELSE IF s[1] = "-" THEN Num(0 - DigitsValue(body)) ELSE Num(DigitsValue(body))

\* str.replace(ch, "")
Replace(s, ch) == SelectSeq(s, LAMBDA c : c # ch)

\* Series.abs()
Abs(x) == IF x.nan THEN x ELSE IF x.v < 0 THEN Num(0 - x.v) ELSE x

\* a missing amount cell, as astype(str) shows it
NaNCell == <<"n", "a", "n">>

\* astype(str) of a description cell
AsStr(desc) == IF desc = <<>> THEN <<"nan">> ELSE desc

-----------------------------------------------------------------------------
(* Statement parsers: the raw table df_raw.                                *)
(*                                                                         *)
(* A table holds its header, as c.lower().strip() gives it, and its rows,  *)
(* each a function from column name to cell.                               *)

Has(t, c) == \E k \in 1..Len(t.cols) : t.cols[k] = c

Column(t, c) == [i \in 1..Len(t.rows) |-> t.rows[i][c]]

\* str.upper() of a debit/credit flag
Upper(f) ==
    CASE f = "dbit" -> "DBIT" [] f = "crdt" -> "CRDT" [] OTHER -> f

\* which of the words the generic parser searches for occur in a header
HeaderWords(c) ==
    CASE c \in {"date", "transaction date", "started date", "completed date",
                "booking date"} -> {"date"}
      [] c \in {"description", "transaction description"} -> {"desc"}
      [] c = "payment details" -> {"detail"}
      [] c \in {"amount", "billing amount", "credit amount"} -> {"amount"}
      [] c = "amount (gbp)" -> {"amount", "gbp"}
      [] c = "debit amount" -> {"amount", "debit"}
      [] c \in {"debit", "debit or credit"} -> {"debit"}
      [] OTHER -> {}

Declined == [status |-> "declined", exc |-> "none", rows |-> <<>>]
Raised(e) == [status |-> "raised", exc |-> e, rows |-> <<>>]
Frame(rows) == [status |-> "frame", exc |-> "none", rows |-> rows]

Indices(n) == [i \in 1..n |-> i]

\* _normalise without the amount > 0 filter
NormaliseKeepAll(df, source) ==
    LET kept == SelectSeq(df, LAMBDA r : r.date # NaT /\ ~r.amount.nan) IN
    [i \in 1..Len(kept) |->
        [row |-> kept[i].row, date |-> kept[i].date,
         description |-> kept[i].description, amount |-> Abs(kept[i].amount).v,
         source_file |-> source]]

\* _normalise: df is a sequence of rows with date, description and amount;
\* `row` remembers the row of df_raw a row came from
Normalise(df, source) ==
    LET kept == SelectSeq(df, LAMBDA r : r.date # NaT /\ ~r.amount.nan)
        positive == SelectSeq(kept, LAMBDA r : Abs(r.amount).v > 0)
    IN
    [i \in 1..Len(positive) |->
        [row |-> positive[i].row, date |-> positive[i].date,
         description |-> positive[i].description,
         amount |-> Abs(positive[i].amount).v, source_file |-> source]]

IsDebitSign(x) == ~x.nan /\ x.v < 0
IsCharge(x) == ~x.nan /\ x.v > 0

\* the row filter of a recognizer: df["amount"] < 0, df["amount"] > 0, or none
Keeps(filter, x) ==
    CASE filter = "negative" -> IsDebitSign(x)
      [] filter = "positive" -> IsCharge(x)
      [] filter = "all" -> TRUE

\* the frame a recognizer builds from the rows `rowsIn` of df_raw: the dates
\* are parsed as one batch from column dateCol, then the columns `needed`
\* are read (df_raw[c] raises KeyError for a column that is not there);
\* descs and amounts are the description and amount of each row of df_raw
BuildFrame(t, rowsIn, dateCol, needed, descs, amounts, filter, source) ==
    IF ~Has(t, dateCol) THEN Raised("KeyError")
    ELSE LET parsed == ToDate([k \in 1..Len(rowsIn) |-> t.rows[rowsIn[k]][dateCol]]) IN
         IF parsed.exc # "none" THEN Raised(parsed.exc)
         ELSE IF \E c \in needed : ~Has(t, c) THEN Raised("KeyError")
         ELSE LET df == [k \in 1..Len(rowsIn) |->
                            [row |-> rowsIn[k], date |-> parsed.dates[k],
                             description |-> descs[rowsIn[k]],
                             amount |-> amounts[rowsIn[k]]]]
                  filtered == SelectSeq(df, LAMBDA r : Keeps(filter, r.amount))
              IN Frame(Normalise(filtered, source))

\* pd.to_numeric(series, errors="coerce")
ToNumericSeries(series) == [i \in 1..Len(series) |-> ToNumeric(series[i])]

\* series.astype(str).str.replace(ch, "")
ReplaceSeries(series, ch) == [i \in 1..Len(series) |-> Replace(series[i], ch)]

\* series.astype(str) of a description column
AsStrSeries(series) == [i \in 1..Len(series) |-> AsStr(series[i])]

\* _parse_monzo
ParseMonzo(t, source) ==
    IF ~Has(t, "transaction id") THEN Declined
    ELSE BuildFrame(t, Indices(Len(t.rows)), "date", {"amount"},
             IF Has(t, "name") THEN Column(t, "name")
             ELSE IF Has(t, "description") THEN Column(t, "description")
             ELSE [i \in 1..Len(t.rows) |-> <<>>],
             ToNumericSeries(Column(t, "amount")),
             "negative", source)

\* _parse_starling
ParseStarling(t, source) ==
    IF ~Has(t, "counter party") /\ ~Has(t, "counterparty") THEN Declined
    ELSE LET cp_col == IF Has(t, "counter party") THEN "counter party" ELSE "counterparty"
             gbp == SelectSeq(t.cols, LAMBDA c : {"amount", "gbp"} \subseteq HeaderWords(c))
             any == SelectSeq(t.cols, LAMBDA c : "amount" \in HeaderWords(c))
             amt_col == IF gbp # <<>> THEN gbp[1] ELSE IF any # <<>> THEN any[1] ELSE "amount"
             cp == AsStrSeries(Column(t, cp_col))
             ref == IF Has(t, "reference") THEN AsStrSeries(Column(t, "reference"))
                    ELSE [i \in 1..Len(t.rows) |-> <<"">>]
         IN
         BuildFrame(t, Indices(Len(t.rows)), "date", {amt_col},
             [i \in 1..Len(t.rows) |-> cp[i] \o ref[i]],
             ToNumericSeries(ReplaceSeries(Column(t, amt_col), ",")),
             "negative", source)

\* _parse_revolut
ParseRevolut(t, source) ==
    IF ~Has(t, "completed date") /\ ~Has(t, "started date") THEN Declined
    ELSE LET date_col == IF Has(t, "completed date") THEN "completed date"
                         ELSE "started date"
         IN
         BuildFrame(t, Indices(Len(t.rows)), date_col, {"description", "amount"},
             Column(t, "description"),
             ToNumericSeries(ReplaceSeries(Column(t, "amount"), ",")),
             "negative", source)

\* _parse_lloyds
ParseLloyds(t, source) ==
    IF ~Has(t, "transaction description") \/ ~Has(t, "debit amount") THEN Declined
    ELSE BuildFrame(t, Indices(Len(t.rows)), "transaction date", {},
             Column(t, "transaction description"),
             ToNumericSeries(ReplaceSeries(Column(t, "debit amount"), ",")),
             "positive", source)

\* _parse_hsbc
ParseHsbc(t, source) ==
    IF ~Has(t, "debit") \/ ~Has(t, "credit") THEN Declined
    ELSE LET desc_col == IF Has(t, "description") THEN "description" ELSE t.cols[2] IN
         BuildFrame(t, Indices(Len(t.rows)), "date", {},
             Column(t, desc_col),
             ToNumericSeries(ReplaceSeries(Column(t, "debit"), ",")),
             "positive", source)

\* _parse_amex_detailed
ParseAmexDetailed(t, source) ==
    IF ~Has(t, "billing amount") \/ ~Has(t, "merchant") \/ ~Has(t, "debit or credit")
    THEN Declined
    ELSE LET date_col == IF Has(t, "transaction date") THEN "transaction date"
                         ELSE "posting date"
             df_debits == SelectSeq(Indices(Len(t.rows)),
                              LAMBDA i : Upper(t.rows[i]["debit or credit"]) = "DBIT")
         IN
         IF df_debits = <<>> THEN Declined
         ELSE BuildFrame(t, df_debits, date_col, {},
                  AsStrSeries(Column(t, "merchant")),
                  ToNumericSeries(ReplaceSeries(Column(t, "billing amount"), ",")),
                  "positive", source)

\* _parse_amex
ParseAmex(t, source) ==
    IF Has(t, "amount") /\ Has(t, "description") /\ Len(t.cols) <= 6
    THEN BuildFrame(t, Indices(Len(t.rows)), "date", {},
             Column(t, "description"),
             ToNumericSeries(ReplaceSeries(Column(t, "amount"), ",")),
             "positive", source)
    ELSE Declined

RECURSIVE FirstCandidate(_, _)
FirstCandidate(candidates, t) ==
    IF candidates = <<>> THEN ""
    ELSE IF Has(t, Head(candidates)) THEN Head(candidates)
    ELSE FirstCandidate(Tail(candidates), t)

\* the first header containing one of the words, "" when there is none
FirstContaining(t, words) ==
    LET hits == SelectSeq(t.cols, LAMBDA c : HeaderWords(c) \cap words # {}) IN
    IF hits = <<>> THEN "" ELSE hits[1]

\* _parse_generic
ParseGeneric(t, source) ==
    LET d1 == FirstCandidate(<<"date", "transaction date", "trans date", "posted date",
                               "value date">>, t)
        d2 == IF d1 # "" THEN d1 ELSE FirstContaining(t, {"date"})
        date_col == IF d2 # "" THEN d2 ELSE t.cols[1]
        s1 == FirstCandidate(<<"description", "transaction description", "narrative",
                               "details", "memo", "name", "payee", "merchant">>, t)
        s2 == IF s1 # "" THEN s1 ELSE FirstContaining(t, {"desc", "narr", "detail", "memo"})
        desc_col == IF s2 # "" THEN s2
                    ELSE IF Len(t.cols) > 1 THEN t.cols[2] ELSE t.cols[1]
        a1 == FirstCandidate(<<"amount", "debit", "debit amount", "value",
                               "transaction amount">>, t)
        a2 == IF a1 # "" THEN a1 ELSE FirstContaining(t, {"amount", "debit", "value"})
        amt_col == IF a2 # "" THEN a2 ELSE t.cols[Len(t.cols)]
    IN
    BuildFrame(t, Indices(Len(t.rows)), date_col, {},
        AsStrSeries(Column(t, desc_col)),
        [i \in 1..Len(t.rows) |->
            Abs(ToNumeric(Replace(Replace(t.rows[i][amt_col], ","), "£")))],
        "all", source)

-----------------------------------------------------------------------------
(* parse_statement and parse_multiple                                      *)

PARSERS ==
    <<"amex_detailed", "monzo", "starling", "revolut", "lloyds", "hsbc", "amex">>

RunParser(name, t, source) ==
    CASE name = "amex_detailed" -> ParseAmexDetailed(t, source)
      [] name = "monzo" -> ParseMonzo(t, source)
      [] name = "starling" -> ParseStarling(t, source)
      [] name = "revolut" -> ParseRevolut(t, source)
      [] name = "lloyds" -> ParseLloyds(t, source)
      [] name = "hsbc" -> ParseHsbc(t, source)
      [] name = "amex" -> ParseAmex(t, source)

\* the loop of parse_statement returning the first result that is not
\* None, empty or not
RECURSIVE TryParsersFirstClaim(_, _, _)
TryParsersFirstClaim(i, t, source) ==
    IF i > Len(PARSERS) THEN ParseGeneric(t, source)
    ELSE LET result == RunParser(PARSERS[i], t, source) IN
         IF result.status # "declined" THEN result
         ELSE TryParsersFirstClaim(i + 1, t, source)

\* the loop of parse_statement over PARSERS, then the fallback
RECURSIVE TryParsers(_, _, _)
TryParsers(i, t, source) ==
    IF i > Len(PARSERS) THEN ParseGeneric(t, source)
    ELSE LET result == RunParser(PARSERS[i], t, source) IN
         IF result.status = "raised" THEN result
         ELSE IF result.status = "frame" /\ result.rows # <<>> THEN result
         ELSE TryParsers(i + 1, t, source)

\* the layouts of the statements: the header, the column each field of a
\* statement line is exported in, and how the layout tells debits from
\* credits
Layouts ==
    { [name |-> "amex_detailed",
       cols |-> <<"transaction date", "merchant", "billing amount", "debit or credit">>,
       date |-> {"transaction date"}, desc |-> "merchant", amount |-> "billing amount",
       credit |-> "", flag |-> "debit or credit", sign |-> "flag"],
      [name |-> "monzo",
       cols |-> <<"transaction id", "date", "name", "amount", "description">>,
       date |-> {"date"}, desc |-> "name", amount |-> "amount",
       credit |-> "", flag |-> "", sign |-> "negative_debit"],
      [name |-> "starling",
       cols |-> <<"date", "counter party", "reference", "amount (gbp)">>,
       date |-> {"date"}, desc |-> "counter party", amount |-> "amount (gbp)",
       credit |-> "", flag |-> "", sign |-> "negative_debit"],
      [name |-> "revolut",
       cols |-> <<"type", "started date", "completed date", "description", "amount",
                  "fee", "currency">>,
       date |-> {"started date", "completed date"}, desc |-> "description",
       amount |-> "amount", credit |-> "", flag |-> "", sign |-> "negative_debit"],
      [name |-> "lloyds",
       cols |-> <<"transaction date", "transaction type", "transaction description",
                  "debit amount", "credit amount">>,
       date |-> {"transaction date"}, desc |-> "transaction description",
       amount |-> "debit amount", credit |-> "credit amount", flag |-> "",
       sign |-> "columns"],
      [name |-> "hsbc",
       cols |-> <<"date", "description", "debit", "credit">>,
       date |-> {"date"}, desc |-> "description", amount |-> "debit",
       credit |-> "credit", flag |-> "", sign |-> "columns"],
      [name |-> "amex",
       cols |-> <<"date", "description", "amount">>,
       date |-> {"date"}, desc |-> "description", amount |-> "amount",
       credit |-> "", flag |-> "", sign |-> "positive_charge"],
      [name |-> "posted",
       cols |-> <<"posted", "description", "amount">>,
       date |-> {"posted"}, desc |-> "description", amount |-> "amount",
       credit |-> "", flag |-> "", sign |-> "positive_charge"],
      [name |-> "named",
       cols |-> <<"booking date", "payment details", "paid out">>,
       date |-> {"booking date"}, desc |-> "payment details", amount |-> "paid out",
       credit |-> "", flag |-> "", sign |-> "positive_charge"],
      [name |-> "positional",
       cols |-> <<"when", "what", "paid">>,
       date |-> {"when"}, desc |-> "what", amount |-> "paid",
       credit |-> "", flag |-> "", sign |-> "positive_charge"] }

LayoutNamed(n) == CHOOSE l \in Layouts : l.name = n

D_01_02_2026 == DateCell(1, "/", 2, 2026)
D_01_25_2026 == DateCell(1, "/", 25, 2026)
D_25_01_2026 == DateCell(25, "/", 1, 2026)
D_2026_02_01 == DateCell(2026, "-", 2, 1)

Line(date, desc, amount, flag) ==
    [date |-> date, desc |-> desc, amount |-> amount, flag |-> flag]

\* statement lines a file may hold: the date, the merchant, the amount as
\* written, and whether the line is a debit or a credit entry (exported as
\* the flag, or as the column the amount is in, by the layouts that have
\* one)
SampleLines ==
    { Line(D_01_02_2026, <<"TESCO">>, <<"4", "5">>, "DBIT"),
      Line(D_01_25_2026, <<"UBER">>, <<"1", "2">>, "dbit"),
      Line(D_25_01_2026, <<"UBER">>, <<"-", "5">>, "CRDT"),
      Line(D_2026_02_01, <<"TESCO">>, <<"1", ",", "0", "0", "0">>, "DBIT"),
      Line(TextDate, <<"TESCO">>, <<"4", "5">>, "DBIT"),
      Line(D_01_02_2026, <<"TESCO">>, <<"-", "5">>, "CRDT"),
      Line(D_25_01_2026, <<>>, <<"£", "7">>, "DBIT"),
      Line(D_25_01_2026, <<"TESCO">>, <<"0">>, "DBIT"),
      Line(D_25_01_2026, <<"TESCO">>, <<"x">>, "CRDT"),
      Line(D_01_02_2026, <<"UBER">>, <<"4", "5">>, "CRDT"),
      Line(NaNDate, <<"TESCO">>, <<"4", "5">>, "DBIT"),
      Line(D_25_01_2026, <<>>, <<"7">>, "DBIT"),
      Line(D_25_01_2026, <<"UBER">>, <<"-", "1", ",", "0", "0", "0">>, "DBIT") }

MaxRows == 2
MaxFiles == 2

\* the row of df_raw pd.read_csv / pd.read_excel makes of a statement line
RawRow(layout, line) ==
    [c \in {layout.cols[k] : k \in 1..Len(layout.cols)} |->
        CASE c \in layout.date -> line.date
          [] c = layout.desc -> line.desc
          [] c = layout.amount ->
                IF layout.credit # "" /\ Upper(line.flag) # "DBIT" THEN NaNCell
                ELSE line.amount
          [] c = layout.credit ->
                IF Upper(line.flag) # "DBIT" THEN line.amount ELSE NaNCell
          [] c = layout.flag -> line.flag
          [] OTHER -> <<"x">>]

\* df_raw of a file
ReadTable(f) ==
    [cols |-> LayoutNamed(f.layout).cols,
     rows |-> [i \in 1..Len(f.lines) |-> RawRow(LayoutNamed(f.layout), f.lines[i])]]

\* filename_lower.endswith((".xlsx", ".xls"))
IsExcel(filename) == filename \in {"feb.XLSX", "mar.xls"}

\* parse_statement: pd.read_excel raises on a malformed workbook, pd.read_csv
\* on text without any column
ParseStatement(f) ==
    IF IsExcel(f.filename) /\ f.content = "malformed" THEN Raised("ExcelError")
    ELSE IF ~IsExcel(f.filename) /\ f.content = "empty" THEN Raised("EmptyDataError")
    ELSE LET df_raw == ReadTable(f) IN
         IF df_raw.rows = <<>> THEN Frame(<<>>)
         ELSE TryParsers(1, df_raw, f.filename)

File(filename, content, layout, lines) ==
    [filename |-> filename, content |-> content, layout |-> layout, lines |-> lines]

LinesUpTo(n) == UNION {[1..k -> SampleLines] : k \in 0..n}

\* the files a single parse is checked on
Files ==
    {File("jan.csv", "table", l.name, lines) : l \in Layouts, lines \in LinesUpTo(MaxRows)}
        \cup {File("feb.XLSX", "malformed", "amex", <<>>),
              File("jan.csv", "empty", "amex", <<>>)}
        \cup {File("mar.xls", "table", "amex", lines) : lines \in LinesUpTo(1)}

\* the files of a multi-file upload
BatchFiles ==
    { File("jan.csv", "table", "amex",
           <<Line(D_01_02_2026, <<"TESCO">>, <<"4", "5">>, "DBIT")>>),
      File("jan.csv", "table", "monzo",
           <<Line(D_25_01_2026, <<"UBER">>, <<"-", "5">>, "CRDT")>>),
      File("jan.csv", "table", "hsbc",
           <<Line(TextDate, <<"TESCO">>, <<"4", "5">>, "DBIT")>>),
      File("jan.csv", "table", "posted",
           <<Line(D_01_02_2026, <<"TESCO">>, <<"4", "5">>, "DBIT")>>),
      File("jan.csv", "table", "amex", <<>>),
      File("mar.xls", "table", "lloyds",
           <<Line(D_2026_02_01, <<"TESCO">>, <<"1", "2">>, "dbit")>>),
      File("feb.XLSX", "malformed", "amex", <<>>) }

\* pd.concat(frames, ignore_index=True)
RECURSIVE Concat(_)
Concat(fs) == IF fs = <<>> THEN <<>> ELSE Head(fs) \o Concat(Tail(fs))

\* no categoriser is in use while statements are parsed
IdleStore ==
    /\ storage = [kind |-> "missing"]
    /\ config = CategoryConfigLoad(CHOOSE doc \in ConfigDocs :
                                       doc.label = UncategorisedDefault)
    /\ data = [s \in Sessions |-> NoStore]
    /\ call = NoCall

\* one iteration of the loop of parse_multiple (and of load_data): an
\* exception of parse_statement leaves the loop and the function
ParseNextFile ==
    /\ outcome.status = "running"
    /\ idx < Len(files)
    /\ LET result == ParseStatement(files[idx + 1]) IN
       IF result.status = "raised"
       THEN /\ outcome' = [status |-> "raised", exc |-> result.exc, rows |-> <<>>]
            /\ UNCHANGED <<idx, frames>>
       ELSE /\ frames' = Append(frames, result.rows)
            /\ idx' = idx + 1
            /\ UNCHANGED outcome
    /\ UNCHANGED <<files, storeVars>>

\* the end of parse_multiple: pd.concat(frames), or the empty frame
ReturnFrames ==
    /\ outcome.status = "running"
    /\ idx = Len(files)
    /\ outcome' = [status |-> "returned", exc |-> "none", rows |-> Concat(frames)]
    /\ UNCHANGED <<files, idx, frames, storeVars>>

Running == [status |-> "running", exc |-> "none", rows |-> <<>>]

\* one statement file is parsed
InitParse ==
    /\ IdleStore
    /\ \E f \in Files : files = <<f>>
    /\ idx = 0
    /\ frames = <<>>
    /\ outcome = Running

\* an upload of up to MaxFiles files is parsed
InitBatch ==
    /\ IdleStore
    /\ files \in UNION {[1..k -> BatchFiles] : k \in 0..MaxFiles}
    /\ idx = 0
    /\ frames = <<>>
    /\ outcome = Running

NextParse ==
    \/ ParseNextFile
    \/ ReturnFrames

SpecParse == InitParse /\ [][NextParse]_vars

SpecBatch == InitBatch /\ [][NextParse]_vars

-----------------------------------------------------------------------------
(* Properties of the categoriser.                                          *)

Returned(x) == [exc |-> "none", value |-> x]

\* the session's store and the file both hold category X for d's key
Pinned(d, X) ==
    /\ data["s1"].kind = "dict"
    /\ Get(data["s1"], d) = Returned(X)
    /\ Load(storage).exc = "none"
    /\ Get(Load(storage).data, d) = Returned(X)

\* the call is a set or remove for d's key
TouchesKey(c, d) ==
    /\ c.op \in {"recategorise", "remove"}
    /\ Strip(Lower(c.desc)) = Strip(Lower(d))

\* C1: once recategorise(d, X) has returned, categorise(d) returns X on the
\* session's categoriser and on a categoriser built on a store freshly loaded
\* from the file, and this stays so across every later step (a rebuild of
\* the categoriser included) that is not a set/remove for d's key.
OverridePrecedence ==
    [][ /\ (call'.op = "recategorise" /\ call'.exc = "none") =>
              /\ Categorise(config', data'["s1"], call'.desc) = Returned(call'.cat)
              /\ Load(storage').exc = "none"
              /\ Categorise(config', Load(storage').data, call'.desc)
                    = Returned(call'.cat)
        /\ \A d \in Descriptions, X \in Categories :
              (Pinned(d, X) /\ ~TouchesKey(call', d)) =>
                  /\ Pinned(d, X)'
                  /\ Categorise(config', data'["s1"], d) = Returned(X)
      ]_vars

\* a recategorise against the keyword rules has just returned
OverridePrecedenceWitness ==
    /\ call.op = "recategorise"
    /\ call.exc = "none"
    /\ ScanRules(config.rules, Lower(call.desc), config.uncategorised_label)
          \notin {call.cat, config.uncategorised_label}
    /\ Pinned(call.desc, call.cat)

\* C2: with a single store, what a new store would load from the file is
\* the store's in-memory mapping, after every set and remove.
WriteThroughRoundTrip ==
    data["s1"] # NoStore =>
        /\ Load(storage).exc = "none"
        /\ Load(storage).data = data["s1"]

\* a remove has returned on a store holding overrides that were written
\* through to the file
WriteThroughWitness ==
    /\ call.op = "remove"
    /\ call.exc = "none"
    /\ data["s1"].kind = "dict"
    /\ DOMAIN data["s1"].map # {}
    /\ Strip(Lower(call.desc)) \notin DOMAIN data["s1"].map
    /\ storage = ObjectDoc(Dumps(data["s1"].map))

\* C3: building an OverrideStore never raises, and on a file that is
\* missing or does not hold a JSON object the store starts as the empty
\* mapping.
ConstructNeverFails ==
    call.op = "construct" =>
        /\ call.exc = "none"
        /\ storage.kind # "object" => data[call.session] = Dict(EmptyMap)

\* the configuration document the loaded config came from
LoadedDoc == CHOOSE doc \in ConfigDocs : CategoryConfigLoad(doc) = config

\* positions of the categories of doc having a keyword that occurs in d,
\* compared without regard to case
MatchingCategories(doc, d) ==
    {i \in 1..Len(doc.categories) :
        \E j \in 1..Len(doc.categories[i].keywords) :
            Contains(Lower(doc.categories[i].keywords[j]), Lower(d))}

\* C6: with no override for the description, categorise returns the first
\* category in configured order with a keyword that is a case-insensitive
\* substring of the description, else the uncategorised label.
KeywordClassification ==
    (/\ call.op = "categorise"
     /\ data[call.session].kind = "dict"
     /\ Strip(Lower(call.desc)) \notin DOMAIN data[call.session].map) =>
        LET m == MatchingCategories(LoadedDoc, call.desc) IN
        /\ call.exc = "none"
        /\ call.value =
              IF m = {} THEN LoadedDoc.label
              ELSE LoadedDoc.categories[CHOOSE i \in m : \A k \in m : i <= k].name

\* a description in upper case matched two categories and got the first
KeywordClassificationWitness ==
    /\ call.op = "categorise"
    /\ data[call.session].kind = "dict"
    /\ Strip(Lower(call.desc)) \notin DOMAIN data[call.session].map
    /\ call.desc # Lower(call.desc)
    /\ Cardinality(MatchingCategories(LoadedDoc, call.desc)) = 2
    /\ call.value = LoadedDoc.categories[1].name

\* C14: on a store holding a mapping, remove(description) raises nothing
\* and leaves every key other than the lowercase-trimmed one as it was; if
\* the key was there it is gone and the file holds the new mapping; if it
\* was not there the mapping and the file are unchanged.
RemoveFrame ==
    [][ (call'.op = "remove" /\ data["s1"].kind = "dict") =>
            LET key == Strip(Lower(call'.desc))
                before == data["s1"].map
            IN
            /\ call'.exc = "none"
            /\ data'["s1"].kind = "dict"
            /\ DOMAIN data'["s1"].map = DOMAIN before \ {key}
            /\ \A k \in DOMAIN before \ {key} : data'["s1"].map[k] = before[k]
            /\ IF key \in DOMAIN before
               THEN storage' = ObjectDoc(Dumps(data'["s1"].map))
               ELSE storage' = storage /\ data' = data
      ]_vars

\* a remove given a description in another case or with spaces around it
\* has returned, and the store still holds another key
RemoveFrameWitness ==
    /\ call.op = "remove"
    /\ call.exc = "none"
    /\ call.desc # Strip(Lower(call.desc))
    /\ data["s1"].kind = "dict"
    /\ Get(data["s1"], call.desc).value = None
    /\ \E k \in DOMAIN data["s1"].map : k # Strip(Lower(call.desc))
    /\ storage = ObjectDoc(Dumps(data["s1"].map))

\* C15: once recategorise(d, X) has returned, categorise(d') returns X for
\* every d' with the lowercase-trimmed form of d, and what it returned
\* before for every other d', those containing d included.
OverrideScope ==
    [][ (call'.op = "recategorise" /\ call'.exc = "none") =>
            \A d \in Descriptions :
                Categorise(config', data'["s1"], d) =
                    IF Strip(Lower(d)) = Strip(Lower(call'.desc))
                    THEN Returned(call'.cat)
                    ELSE Categorise(config, data["s1"], d)
      ]_vars

\* "b" has just been recategorised: "B " gets the new category, "ab", which
\* contains it, does not
OverrideScopeWitness ==
    /\ call.op = "recategorise"
    /\ call.exc = "none"
    /\ call.desc = <<"b">>
    /\ Categorise(config, data["s1"], <<"B", " ">>) = Returned(call.cat)
    /\ Contains(Strip(Lower(call.desc)), <<"a", "b">>)
    /\ Categorise(config, data["s1"], <<"a", "b">>).exc = "none"
    /\ Categorise(config, data["s1"], <<"a", "b">>).value # call.cat

\* the operations that only read
ReadOps ==
    {"categorise", "get", "get_icon", "all_categories", "all_overrides",
     "mutate_returned"}

\* C16: categorise, get, get_icon, all_categories and all_overrides, and a
\* caller changing the mapping all_overrides gave it, leave the store's
\* mapping, the file and the configuration as they were, whether they return
\* or raise; so categorise answers the same for every description after
\* them, and a categorise that follows a categorise of the same description
\* returns the same category.
ReadsHaveNoEffect ==
    [][ /\ call'.op \in ReadOps =>
              /\ data' = data
              /\ storage' = storage
              /\ config' = config
              /\ \A d \in Descriptions :
                    Categorise(config', data'["s1"], d)
                        = Categorise(config, data["s1"], d)
        /\ (call.op = "categorise" /\ call'.op = "categorise"
                /\ call'.desc = call.desc) =>
              (call'.exc = call.exc /\ call'.value = call.value)
      ]_vars

\* the caller has put a key into the mapping all_overrides returned that the
\* store, holding other overrides, does not have
ReadsHaveNoEffectWitness ==
    /\ call.op = "mutate_returned"
    /\ data["s1"].kind = "dict"
    /\ DOMAIN data["s1"].map # {}
    /\ call.desc \notin DOMAIN data["s1"].map
    /\ call.value.map[call.desc] = call.cat
    /\ storage = ObjectDoc(Dumps(data["s1"].map))

-----------------------------------------------------------------------------
(* Properties of the parsers.  Row k of frames[i] came from line           *)
(* frames[i][k].row of files[i].                                           *)

SourceLine(i, k) == files[i].lines[frames[i][k].row]

\* the amount of a line with thousands separators and currency sign removed
CleanAmount(line) == ToNumeric(Replace(Replace(line.amount, ","), "£"))

\* a credit line: flagged other than DBIT, an entry of the credit column,
\* or a negative amount where a positive amount is a charge
IsCreditLine(f, line) ==
    LET sign == LayoutNamed(f.layout).sign IN
    CASE sign \in {"flag", "columns"} -> Upper(line.flag) # "DBIT"
      [] sign = "positive_charge" -> ~CleanAmount(line).nan /\ CleanAmount(line).v < 0
      [] OTHER -> FALSE

\* C4: no transaction of a parsed file comes from a credit line.
CreditsExcluded ==
    \A i \in 1..Len(frames) : \A k \in 1..Len(frames[i]) :
        ~IsCreditLine(files[i], SourceLine(i, k))

\* the order of the recognizers as the specification states it
TableOrder ==
    <<"amex_detailed", "monzo", "starling", "revolut", "lloyds", "hsbc", "amex">>

\* the recognizer claims the table and yields at least one row
Hits(name, t, source) ==
    /\ RunParser(name, t, source).status = "frame"
    /\ RunParser(name, t, source).rows # <<>>

\* C5: for a table with rows, what parse_statement returns is the result of
\* the first recognizer, in the stated order, that claims the header and
\* yields rows, and the result of the generic fallback when none does.
RecognizerSelection ==
    (outcome.status = "returned" /\ files[1].content = "table" /\ files[1].lines # <<>>) =>
        LET t == ReadTable(files[1])
            source == files[1].filename
            hits == {i \in 1..Len(TableOrder) : Hits(TableOrder[i], t, source)}
        IN
        frames[1] =
            IF hits = {} THEN ParseGeneric(t, source).rows
            ELSE RunParser(TableOrder[CHOOSE i \in hits : \A j \in hits : i <= j],
                           t, source).rows

\* an Amex-detailed file without debit rows was handled by the fallback
RecognizerSelectionWitness ==
    /\ outcome.status = "returned"
    /\ files[1].layout = "amex_detailed"
    /\ files[1].lines # <<>>
    /\ \A k \in 1..Len(files[1].lines) : Upper(files[1].lines[k].flag) # "DBIT"
    /\ frames[1] # <<>>
    /\ frames[1] = ParseGeneric(ReadTable(files[1]), files[1].filename).rows

\* C7: a file that fails to parse does not keep the other files of the
\* upload out of the result: once parse_multiple has ended, the result holds
\* the transactions of every file that parses.
MultiFileIsolation ==
    outcome.status # "running" =>
        \A i \in 1..Len(files) :
            LET r == ParseStatement(files[i]) IN
            r.status = "frame" =>
                \A k \in 1..Len(r.rows) :
                    \E j \in 1..Len(outcome.rows) : outcome.rows[j] = r.rows[k]

DayFirstReading ==
    \A i \in 1..Len(frames) : \A k \in 1..Len(frames[i]) :
        SourceLine(i, k).date = D_01_02_2026 => frames[i][k].date = Date(2026, 2, 1)

\* C10: every transaction returned has an amount above zero and comes from
\* a line whose amount is a number other than zero.
PositiveAmounts ==
    /\ \A j \in 1..Len(outcome.rows) : outcome.rows[j].amount > 0
    /\ \A i \in 1..Len(frames) : \A k \in 1..Len(frames[i]) :
          /\ frames[i][k].amount > 0
          /\ ~CleanAmount(SourceLine(i, k)).nan
          /\ CleanAmount(SourceLine(i, k)).v # 0

\* the fallback returned one transaction of a file of two lines, the other
\* line having amount zero
PositiveAmountsWitness ==
    /\ outcome.status = "returned"
    /\ files[1].layout = "positional"
    /\ Len(files[1].lines) = 2
    /\ Len(outcome.rows) = 1
    /\ \E k \in 1..2 : /\ CleanAmount(files[1].lines[k]) = Num(0)
                        /\ files[1].lines[k].date = D_25_01_2026

\* C11: every transaction returned has a description, and comes from a line
\* that has one: lines without a description are dropped, whichever
\* recognizer handles the file.
NonEmptyDescription ==
    \A i \in 1..Len(frames) : \A k \in 1..Len(frames[i]) :
        /\ frames[i][k].description # <<>>
        /\ SourceLine(i, k).desc # <<>>

\* the file with thousands separators and currency signs taken out of its
\* amounts
StrippedFile(f) ==
    [f EXCEPT !.lines = [n \in 1..Len(f.lines) |->
        [f.lines[n] EXCEPT !.amount = Replace(Replace(@, ","), "£")]]]

\* C12: thousands separators and currency signs in the amounts make no
\* difference: a file parses to what it parses to with them removed.
AmountParsing ==
    \A i \in 1..Len(frames) :
        frames[i] = ParseStatement(StrippedFile(files[i])).rows

-----------------------------------------------------------------------------
(* Properties of two sessions on one file.                                 *)

\* the file holds exactly the mapping of session s
InSync(s) == data[s].kind = "dict" /\ storage = ObjectDoc(Dumps(data[s].map))

\* the file holds exactly the mapping of session s after the step
InSyncNext(s) == data'[s].kind = "dict" /\ storage' = ObjectDoc(Dumps(data'[s].map))

\* the step is a set, or a remove of a key that was there, that returned:
\* the calls that write the file
Persists ==
    /\ call'.exc = "none"
    /\ data[call'.session].kind = "dict"
    /\ \/ call'.op = "recategorise"
       \/ /\ call'.op = "remove"
          /\ Strip(Lower(call'.desc)) \in DOMAIN data[call'.session].map

\* C13: a set/remove that writes leaves the file holding exactly the
\* writer's in-memory mapping, which is its mapping before the call with
\* the one key changed, whatever the other session had written; the
\* file then keeps holding that session's mapping until the other session
\* writes; and no step changes the mapping of a session other than the
\* caller's (nothing is merged).
LastWriteWins ==
    [][ /\ Persists =>
              /\ InSyncNext(call'.session)
              /\ \A k \in DOMAIN data'[call'.session].map :
                    \/ k = Strip(Lower(call'.desc))
                    \/ /\ k \in DOMAIN data[call'.session].map
                       /\ data'[call'.session].map[k] = data[call'.session].map[k]
        /\ ~Persists => storage' = storage
        /\ \A s \in Sessions :
              /\ (InSync(s) /\ ~(Persists /\ call'.session # s)) => InSyncNext(s)
              /\ s # call'.session => data'[s] = data[s]
      ]_vars

\* s1 has just written, and an override that s2 wrote after s1 had loaded
\* is no longer in the file
LastWriteWinsWitness ==
    /\ call.op = "recategorise"
    /\ call.session = "s1"
    /\ call.exc = "none"
    /\ InSync("s1")
    /\ data["s2"].kind = "dict"
    /\ \E k \in DOMAIN data["s2"].map :
          /\ k \notin DOMAIN data["s1"].map
          /\ k \notin {p[1] : p \in storage.members}

====
